---- MODULE Spec2Model ----
(***************************************************************************)
(* Rust-Metronome, src/src/main.rs: the control context (the iced          *)
(* Application `Metronome`: update / subscription), the runtime's queue of *)
(* messages that timers and commands have produced and update() has not   *)
(* yet seen, the mpsc channel of Beat events, and the player_thread that   *)
(* receives them.                                                          *)
(***************************************************************************)
EXTENDS Integers, Sequences, FiniteSets, TLC

VARIABLES
    value,            \* Metronome.value: tempo, u32
    state,            \* Metronome.state: "Stopped" | "Play"
    subdivision,      \* Metronome.subdivision (always Some): "Quarter" | "Eighth"
    is_set_to_quack,  \* Metronome.is_set_to_quack
    is_timer_on,      \* Metronome.is_timer_on
    timer,            \* Metronome.timer: [mins, secs]
    ctl,              \* the control context: "running" | "panicked" | "exited"
    inflight,         \* messages produced for update() and not yet delivered
    chan,             \* the mpsc channel player_thread(tx) -> rx
    worker,           \* player_thread: "open" | "recv" | "done" | "open_panic" | "play_panic" | "killed"
    playing,          \* clips the output stream is playing: started by play_raw, not yet at their end
    sentLog,          \* history: every Beat send() took, in order, with where its message came from
    recvLog,          \* history: every Beat recv() returned, and whether its play was started
    beats,            \* history: Message::Beat deliveries to update()
    ticks,            \* history: Message::Tick deliveries to update()
    t0,               \* history: the countdown the run started with
    focus             \* which of the bounds below the run explores in depth

vars == <<value, state, subdivision, is_set_to_quack, is_timer_on, timer, ctl,
          inflight, chan, worker, playing, sentLog, recvLog, beats, ticks, t0, focus>>

metro == <<value, state, subdivision, is_set_to_quack, is_timer_on, timer>>
hist == <<sentLog, recvLog, beats, ticks, t0, focus>>

----------------------------------------------------------------------------
(* Program constants *)

\* A u32 of the program is an integer here; TLC's integers are 32 bits wide and
\* signed, so a u32 above 2^31 - 1 is written as the negative number that is
\* congruent to it modulo 2^32 (-1 is u32::MAX, what 0 - 1 wraps to).

\* Slider::new(40..=200, ..)
MinBPM == 40
MaxBPM == 200

\* MetronomeSettings::default().value
DefaultBPM == 120

\* Timer::default()
DefaultTimer == [mins |-> 2, secs |-> 30]

\* Durations are whole microseconds here.  The 60. of subscription(), one
\* minute in seconds:
MicrosPerMinute == 60000000

\* Duration::from_secs(1)
TickPeriod == 1000000

----------------------------------------------------------------------------
(* Bounds of the model *)

\* Beat messages a run may produce when beats are the focus
MaxBeats == 2

\* Tick messages a run may produce when the countdown is the focus
MaxTicks == 6

\* how far +/- presses may carry the tempo from a slider stop when the tempo
\* is the focus
TempoMargin == 2

\* A run explores one of these in depth (its focus) and keeps the others at
\* their least: one Beat message, one Tick message, +/- presses only between
\* an end of the slider and the value next to it (and, where the Beats are
\* the focus, the slider left where it is).  The focus "low" lets the -
\* presses go on from the low end of the slider.  The focus "mixed" has a
\* little of each: two Beat messages, the slider moved to its high end, and
\* one Tick that ends the countdown.
Focuses == {"tempo", "beats", "countdown", "low", "mixed"}

BeatCap == CASE focus = "beats" -> MaxBeats [] focus = "mixed" -> 2 [] OTHER -> 1
TickCap == IF focus = "countdown" THEN MaxTicks ELSE 1
Margin == IF focus = "tempo" THEN TempoMargin ELSE 0

\* the slider positions update() is given: of 40..=200 both ends and the default
SlideStops ==
    CASE focus = "beats" -> {DefaultBPM}
      [] focus = "mixed" -> {DefaultBPM, MaxBPM}
      [] OTHER -> {MinBPM, DefaultBPM, MaxBPM}

\* values a SlideChangeBPM message can carry that the slider cannot produce
InvalidStops == {MinBPM - 1, MaxBPM + 1}

\* later points of the countdown from 2:30 (after 89 and after 145 Ticks),
\* taken as starting points so that MaxTicks Ticks reach the borrow and 0:00
LateTimers == {[mins |-> 1, secs |-> 1], [mins |-> 0, secs |-> 5]}

\* the last point of the countdown above 0:00 (after 149 Ticks), taken as
\* starting point where one Tick is to end it
LastSecond == [mins |-> 0, secs |-> 1]

Abs(n) == IF n < 0 THEN -n ELSE n

\* the tempo is within Margin of a value a SlideChangeBPM can set or, when
\* the low tempos are the focus, anywhere from the low end of the slider down
TempoInWindow(v) ==
    \/ \E s \in SlideStops \cup InvalidStops : Abs(v - s) <= Margin
    \/ focus = "low" /\ 0 <= v /\ v <= MinBPM

----------------------------------------------------------------------------
(* Pure functions *)

Total(t) == t.mins * 60 + t.secs

\* (mutant) an update_timer without the borrow from the minutes
update_timer_no_borrow(t) == [mins |-> t.mins, secs |-> t.secs - 1]

update_timer(t) ==
    IF t.secs = 0 /\ t.mins > 0
    THEN [mins |-> t.mins - 1, secs |-> 59]
    ELSE [mins |-> t.mins, secs |-> t.secs - 1]

\* (mutant) a Tick arm without its guard
TickDueAlways(t) == TRUE

\* the guard of the Message::Tick arm
TickDue(t) == Total(t) > 0

\* (mutant) a Beat arm that does not look at the state
ShouldSendAlways(st) == TRUE

\* the Message::Beat arm sends only in MetronomeState::Play
ShouldSend(st) == st = "Play"

\* (mutant) a Beat arm that does not look at is_set_to_quack
BeatKindClickOnly(quack) == "Beat"

\* the Beat the Message::Beat arm sends
BeatKind(quack) == IF quack THEN "Quack" ELSE "Beat"

\* (mutant) both subdivisions click at the quarter note
subdivision_factor_one(s) == 1

\* the match on self.subdivision in subscription()
subdivision_factor(s) == IF s = "Quarter" THEN 1 ELSE 2

\* 60. / 0 as f64 is infinite and Duration::from_secs_f64 panics on it
subscription_panics(v) == v = 0

\* (mutant) a beat timer that keeps the period of the tempo it started with
click_period_latched(v, s) == MicrosPerMinute \div DefaultBPM

\* Duration::from_secs_f64(60. / v as f64 / subdivision_factor), to the
\* nearest microsecond.  The f64 quotient is within 10^-16 of the real one and
\* the Duration within a nanosecond of that, and no quotient with a divisor
\* up to 2 * MaxBPM lies that close to half a microsecond, so the nearest
\* microsecond is that of the real quotient.  A tempo that has wrapped (below
\* 0 here) is above 2^31 and its period below a microsecond.
click_period(v, s) ==
    IF v <= 0 THEN 0
    ELSE (2 * MicrosPerMinute + v * subdivision_factor(s)) \div (2 * v * subdivision_factor(s))

click_sub == [msg |-> "Beat", period |-> click_period(value, subdivision)]
timer_sub == [msg |-> "Tick", period |-> TickPeriod]

\* (mutant) a subscription() that returns the batch in either state
subscription_any_state(st) ==
    <<click_sub>> \o (IF is_timer_on THEN <<timer_sub>> ELSE <<>>)

\* the Vec subscription() batches, by state
subscription_of(st) ==
    IF st = "Play"
    THEN <<click_sub>> \o (IF is_timer_on THEN <<timer_sub>> ELSE <<>>)
    ELSE <<>>

\* the timers the runtime keeps: it calls subscription() after every
\* update() and, before it handles anything else, drops the timers that are
\* not in the result and starts the ones that are new in it
subscription == subscription_of(state)

\* a timer of the subscription yields message m
Active(m) == \E i \in DOMAIN subscription : subscription[i].msg = m

\* messages in flight, with where they come from: the timer or the command
\* that produced them, and the period of that timer (0 for a command)
BeatMsg(src, period) == [msg |-> "Beat", src |-> src, stale |-> FALSE, period |-> period]
TickMsg == [msg |-> "Tick", src |-> "timer", stale |-> FALSE, period |-> TickPeriod]

\* m was fired by a beat timer of another period than the current one
OldPeriod(m) == m.src = "timer" /\ m.msg = "Beat" /\ m.period /= click_sub.period

RECURSIVE Count(_, _)
Count(q, m) ==
    IF q = <<>> THEN 0
    ELSE (IF Head(q).msg = m THEN 1 ELSE 0) + Count(Tail(q), m)

\* the timers and commands that produced these messages are gone
MarkStale(q) == [i \in DOMAIN q |-> [q[i] EXCEPT !.stale = TRUE]]

\* (mutant) a Toggle arm that returns Command::none() on both branches
ToggleCommandNone(st) == <<>>

\* the Command the Message::Toggle arm returns, as the messages it yields:
\* Command::perform(async {}, |()| Message::Beat) is ready at its first poll,
\* Command::none() yields nothing
ToggleCommand(st) == IF st = "Stopped" THEN <<BeatMsg("cmd", 0)>> ELSE <<>>

\* the kinds of a log's entries
Kinds(log) == [i \in DOMAIN log |-> log[i].kind]

\* (mutant) an output stream with one voice: a new clip takes the place of
\* the one that is playing
play_raw_one_voice(n) == 1

\* the clips playing once stream_handle.play_raw has returned Ok: the call
\* hands the source to the output stream, which mixes it in with the n it is
\* playing, and returns without waiting for any of them
play_raw(n) == n + 1

\* the Receiver is alive: player_thread has neither returned nor panicked
RxAlive == worker \in {"open", "recv"}

----------------------------------------------------------------------------
(* Metronome::new *)

Init ==
    /\ focus \in Focuses
    /\ value = DefaultBPM
    /\ state = "Stopped"
    /\ subdivision = "Quarter"
    /\ is_set_to_quack = FALSE
    /\ is_timer_on = FALSE
    /\ t0 \in CASE focus = "countdown" -> {DefaultTimer} \cup LateTimers
               [] focus = "mixed" -> {LastSecond}
               [] OTHER -> {DefaultTimer}
    /\ timer = t0
    /\ ctl = "running"
    /\ inflight = <<>>
    /\ chan = <<>>
    /\ worker = "open"
    /\ playing = 0
    /\ sentLog = <<>>
    /\ recvLog = <<>>
    /\ beats = 0
    /\ ticks = 0

----------------------------------------------------------------------------
(* Metronome::update, one action per arm.  A message of a widget is handed  *)
(* to update() as it occurs; a message of a timer or of a command waits in  *)
(* `inflight`, the runtime's queue, which update() is fed from in order, so *)
(* that a widget's message can overtake a message a timer has already      *)
(* fired.                                                                   *)

UpdateIncrementBPM ==
    /\ ctl = "running"
    /\ TempoInWindow(value + 1)
    /\ value' = value + 1
    /\ ctl' = IF subscription_panics(value') THEN "panicked" ELSE ctl
    /\ UNCHANGED <<playing, state, subdivision, is_set_to_quack, is_timer_on, timer,
                   inflight, chan, worker, hist>>

UpdateDecrementBPM ==
    /\ ctl = "running"
    /\ TempoInWindow(value - 1)
    /\ value' = value - 1
    /\ ctl' = IF subscription_panics(value') THEN "panicked" ELSE ctl
    /\ UNCHANGED <<playing, state, subdivision, is_set_to_quack, is_timer_on, timer,
                   inflight, chan, worker, hist>>

UpdateSlideChangeBPM(bpm) ==
    /\ ctl = "running"
    /\ value' = bpm
    /\ ctl' = IF subscription_panics(value') THEN "panicked" ELSE ctl
    /\ UNCHANGED <<playing, state, subdivision, is_set_to_quack, is_timer_on, timer,
                   inflight, chan, worker, hist>>

UpdateToggle ==
    /\ ctl = "running"
    /\ IF state = "Stopped"
       THEN /\ beats + Count(inflight, "Beat") < BeatCap
            /\ state' = "Play"
            /\ inflight' = inflight \o ToggleCommand(state)
       ELSE /\ state' = "Stopped"
            /\ inflight' = MarkStale(inflight) \o ToggleCommand(state)
    /\ UNCHANGED <<playing, value, subdivision, is_set_to_quack, is_timer_on, timer, ctl,
                   chan, worker, hist>>

UpdateChangeSubdivision(s) ==
    /\ ctl = "running"
    /\ subdivision' = s
    /\ UNCHANGED <<playing, value, state, is_set_to_quack, is_timer_on, timer, ctl,
                   inflight, chan, worker, hist>>

UpdateToggleQuack(should_quack) ==
    /\ ctl = "running"
    /\ is_set_to_quack' = should_quack
    /\ UNCHANGED <<playing, value, state, subdivision, is_timer_on, timer, ctl,
                   inflight, chan, worker, hist>>

UpdateToggleTimer(toggle_timer) ==
    /\ ctl = "running"
    /\ is_timer_on' = toggle_timer
    /\ UNCHANGED <<playing, value, state, subdivision, is_set_to_quack, timer, ctl,
                   inflight, chan, worker, hist>>

\* the Message::Beat arm, given the head of the queue
UpdateBeat ==
    /\ ctl = "running"
    /\ inflight /= <<>>
    /\ Head(inflight).msg = "Beat"
    /\ inflight' = Tail(inflight)
    /\ beats' = beats + 1
    /\ IF ShouldSend(state)
       THEN IF RxAlive
            THEN /\ chan' = Append(chan, BeatKind(is_set_to_quack))
                 /\ sentLog' = Append(sentLog, [kind |-> BeatKind(is_set_to_quack),
                                                src |-> Head(inflight).src,
                                                stale |-> Head(inflight).stale,
                                                old |-> OldPeriod(Head(inflight)),
                                                spent |-> Total(timer) = 0])
                 /\ ctl' = ctl
            ELSE \* send() is Err once the Receiver is gone: unwrap() panics
                 /\ ctl' = "panicked"
                 /\ UNCHANGED <<chan, sentLog>>
       ELSE UNCHANGED <<chan, sentLog, ctl>>
    /\ UNCHANGED <<playing, metro, worker, recvLog, ticks, t0, focus>>

\* (mutant) a Tick arm that stops playback when the countdown reaches 0:00
UpdateTickStopsAtZero ==
    /\ ctl = "running"
    /\ inflight /= <<>>
    /\ Head(inflight).msg = "Tick"
    /\ inflight' = Tail(inflight)
    /\ ticks' = ticks + 1
    /\ timer' = IF TickDue(timer) THEN update_timer(timer) ELSE timer
    /\ state' = IF Total(timer') = 0 THEN "Stopped" ELSE state
    /\ UNCHANGED <<playing, value, subdivision, is_set_to_quack, is_timer_on, ctl,
                   chan, worker, sentLog, recvLog, beats, t0, focus>>

\* the Message::Tick arm, given the head of the queue
UpdateTick ==
    /\ ctl = "running"
    /\ inflight /= <<>>
    /\ Head(inflight).msg = "Tick"
    /\ inflight' = Tail(inflight)
    /\ ticks' = ticks + 1
    /\ timer' = IF TickDue(timer) THEN update_timer(timer) ELSE timer
    /\ UNCHANGED <<playing, value, state, subdivision, is_set_to_quack, is_timer_on, ctl,
                   chan, worker, sentLog, recvLog, beats, t0, focus>>

----------------------------------------------------------------------------
(* The timers of subscription() *)

\* time::every(period).map(|_| Message::Beat) fires
FireBeat ==
    /\ ctl = "running"
    /\ Active("Beat")
    /\ beats + Count(inflight, "Beat") < BeatCap
    /\ inflight' = Append(inflight, BeatMsg("timer", click_sub.period))
    /\ UNCHANGED <<playing, metro, ctl, chan, worker, hist>>

\* time::every(1 s).map(|_| Message::Tick) fires
FireTick ==
    /\ ctl = "running"
    /\ Active("Tick")
    /\ ticks + Count(inflight, "Tick") < TickCap
    /\ inflight' = Append(inflight, TickMsg)
    /\ UNCHANGED <<playing, metro, ctl, chan, worker, hist>>

----------------------------------------------------------------------------
(* The window closes: the Metronome, and with it the Sender, is dropped *)

Shutdown ==
    /\ ctl = "running"
    /\ ctl' = "exited"
    /\ UNCHANGED <<playing, metro, inflight, chan, worker, hist>>

SenderAlive == ctl = "running"

\* main returns (or unwinds) and the process ends: new() dropped the
\* JoinHandle of the worker thread and nothing joins it, so a worker that is
\* still running ends with the process, whatever the channel holds
ProcessExit ==
    /\ ctl \in {"exited", "panicked"}
    /\ worker \in {"open", "recv"}
    /\ worker' = "killed"
    /\ chan' = <<>>
    /\ playing' = 0   \* _stream is dropped: the output stream stops
    /\ UNCHANGED <<metro, ctl, inflight, hist>>

----------------------------------------------------------------------------
(* player_thread *)

\* OutputStream::try_default() is Ok
WorkerOpen ==
    /\ worker = "open"
    /\ worker' = "recv"
    /\ UNCHANGED <<playing, metro, ctl, inflight, chan, hist>>

\* OutputStream::try_default() is Err: unwrap() panics, the Receiver is dropped
WorkerOpenFail ==
    /\ worker = "open"
    /\ worker' = "open_panic"
    /\ chan' = <<>>
    /\ UNCHANGED <<playing, metro, ctl, inflight, hist>>

\* rx.recv() is Ok(beat) and play_raw is Ok
WorkerPlay ==
    /\ worker = "recv"
    /\ chan /= <<>>
    /\ chan' = Tail(chan)
    /\ recvLog' = Append(recvLog, [kind |-> Head(chan), played |-> TRUE])
    /\ playing' = play_raw(playing)
    /\ UNCHANGED <<metro, ctl, inflight, worker, sentLog, beats, ticks, t0, focus>>

\* rx.recv() is Ok(beat) and play_raw is Err: unwrap() panics, the Receiver is
\* dropped with what the channel still holds
WorkerPlayFail ==
    /\ worker = "recv"
    /\ chan /= <<>>
    /\ chan' = <<>>
    /\ recvLog' = Append(recvLog, [kind |-> Head(chan), played |-> FALSE])
    /\ worker' = "play_panic"
    /\ playing' = 0   \* _stream is dropped: the output stream stops
    /\ UNCHANGED <<metro, ctl, inflight, sentLog, beats, ticks, t0, focus>>

\* a clip reaches its end on the output stream's own thread
ClipEnds ==
    /\ playing > 0
    /\ playing' = playing - 1
    /\ UNCHANGED <<metro, ctl, inflight, chan, worker, hist>>

\* rx.recv() is Err: every Sender is gone and the channel is empty
WorkerExit ==
    /\ worker = "recv"
    /\ chan = <<>>
    /\ ~SenderAlive
    /\ worker' = "done"
    /\ playing' = 0   \* _stream is dropped: the output stream stops
    /\ UNCHANGED <<metro, ctl, inflight, chan, hist>>

----------------------------------------------------------------------------
(* Specifications *)

\* the program with a working audio device and the slider as source of tempi
Next ==
    \/ UpdateIncrementBPM
    \/ UpdateDecrementBPM
    \/ \E bpm \in SlideStops : UpdateSlideChangeBPM(bpm)
    \/ UpdateToggle
    \/ \E s \in {"Quarter", "Eighth"} : UpdateChangeSubdivision(s)
    \/ \E b \in BOOLEAN : UpdateToggleQuack(b)
    \/ \E b \in BOOLEAN : UpdateToggleTimer(b)
    \/ UpdateBeat
    \/ UpdateTick
    \/ FireBeat
    \/ FireTick
    \/ Shutdown
    \/ ProcessExit
    \/ WorkerOpen
    \/ WorkerPlay
    \/ ClipEnds
    \/ WorkerExit

Spec == Init /\ [][Next]_vars

\* the same with the faults of the environment: no audio device, a play
\* request that fails, a tempo message outside the slider's range
NextFault ==
    \/ Next
    \/ WorkerOpenFail
    \/ WorkerPlayFail
    \/ \E bpm \in InvalidStops : UpdateSlideChangeBPM(bpm)

SpecFault == Init /\ [][NextFault]_vars

\* the tempo and subdivision controls alone, with the slider at every one of
\* its positions
NextPeriod ==
    \/ \E bpm \in MinBPM..MaxBPM : UpdateSlideChangeBPM(bpm)
    \/ \E s \in {"Quarter", "Eighth"} : UpdateChangeSubdivision(s)
    \/ UpdateToggle

SpecPeriod == Init /\ [][NextPeriod]_vars

----------------------------------------------------------------------------
(* Steps, as the claims speak of them *)

\* update() is given the message at the head of the queue
Delivers == inflight /= <<>> /\ inflight' = Tail(inflight)
DeliversBeat == Delivers /\ Head(inflight).msg = "Beat"

\* the kind is_set_to_quack selects in the current state
KindNow == IF is_set_to_quack THEN "Quack" ELSE "Beat"

InRange(v) == MinBPM <= v /\ v <= MaxBPM

----------------------------------------------------------------------------
(* Tempo *)

\* C1: in every state reachable by control messages, SlideChangeBPM carrying
\* only values of 40..=200, the tempo is within [40, 200].
C1_TempoWithinBounds == InRange(value)

\* C2: IncrementBPM at tempo 200 leaves 200 and DecrementBPM at tempo 40
\* leaves 40; at every other tempo of [40,200] they change it by exactly +1 / -1.
C2_IncDecClamp ==
    [][/\ (UpdateIncrementBPM /\ InRange(value))
            => value' = IF value = MaxBPM THEN MaxBPM ELSE value + 1
       /\ (UpdateDecrementBPM /\ InRange(value))
            => value' = IF value = MinBPM THEN MinBPM ELSE value - 1]_vars

\* C3: SlideChangeBPM(v) with v outside [40,200] is rejected: the tempo and the
\* rest of the session state keep their prior values.
C3_InvalidSlideRejected ==
    [][\A bpm \in InvalidStops : UpdateSlideChangeBPM(bpm) => UNCHANGED metro]_vars

----------------------------------------------------------------------------
(* Beats *)

\* C4: no Beat is enqueued to the worker channel while the state is Stopped,
\* also when a Beat message a timer had already fired is delivered then.
C4_NoSendWhileStopped ==
    [][state = "Stopped" => sentLog' = sentLog /\ Len(chan') <= Len(chan)]_vars

\* a Beat message was delivered while Stopped, after one was sent while playing
C4_Witness == state = "Stopped" /\ sentLog /= <<>> /\ beats > Len(sentLog)

\* a message of the current session: produced since the last Toggle to Play
Fresh(m, src) == m.msg = "Beat" /\ m.src = src /\ ~m.stale

\* C5: every Toggle from Stopped to Play issues a Beat message at once; if the
\* state is still Play when it is delivered exactly one Beat is enqueued; and
\* it is delivered before every Beat message the session's timer fires.
C5_ImmediateFirstBeat ==
    [][/\ (state = "Stopped" /\ state' = "Play")
            => inflight' = Append(inflight, BeatMsg("cmd", 0))
       /\ (DeliversBeat /\ Fresh(Head(inflight), "cmd") /\ state = "Play")
            => /\ chan' = Append(chan, KindNow)
               /\ sentLog' = Append(sentLog, [kind |-> KindNow, src |-> "cmd",
                                              stale |-> FALSE, old |-> FALSE,
                                              spent |-> Total(timer) = 0])
       /\ (DeliversBeat /\ Fresh(Head(inflight), "timer"))
            => \A i \in DOMAIN inflight : ~Fresh(inflight[i], "cmd")]_vars

\* the immediate Beat has been enqueued, a timer's Beat message waits behind it
C5_Witness ==
    /\ state = "Play"
    /\ sentLog /= <<>>
    /\ sentLog[Len(sentLog)].src = "cmd" /\ ~sentLog[Len(sentLog)].stale
    /\ inflight /= <<>> /\ Fresh(Head(inflight), "timer")

\* C6: the kind of an enqueued Beat is the one is_set_to_quack selects in the
\* state in which its Beat message is processed; what was enqueued before a
\* ToggleQuack keeps its kind.
C6_KindAtProcessing ==
    [][/\ (DeliversBeat /\ state = "Play")
            => /\ chan' = Append(chan, KindNow)
               /\ Kinds(sentLog') = Append(Kinds(sentLog), KindNow)
       /\ is_set_to_quack' /= is_set_to_quack
            => chan' = chan /\ sentLog' = sentLog
       /\ Len(sentLog') >= Len(sentLog)
       /\ SubSeq(sentLog', 1, Len(sentLog)) = sentLog]_vars

\* a click, then ToggleQuack(true), then a quack: the click is still a click
C6_Witness ==
    /\ Len(sentLog) = 2
    /\ sentLog[1].kind = "Beat"
    /\ sentLog[2].kind = "Quack"
    /\ is_set_to_quack

\* C19: whatever IncrementBPM, DecrementBPM and SlideChangeBPM messages are
\* processed, in Play or Stopped, the tempo stays at least 1, and subscription()
\* never computes the beat period with the tempo 0.
C19_TempoStaysPositive == value >= 1 /\ ~subscription_panics(value)

----------------------------------------------------------------------------
(* Countdown *)

\* C7: the countdown is always well formed (minutes >= 0, 0 <= seconds <= 59),
\* at 0:00 every further step leaves it at 0:00, and from 0:05 five Ticks
\* reach 0:00.
C7_CountdownWellFormed ==
    /\ [](/\ timer.mins >= 0
          /\ 0 <= timer.secs /\ timer.secs <= 59
          /\ (t0 = [mins |-> 0, secs |-> 5] /\ ticks >= 5)
                => timer = [mins |-> 0, secs |-> 0])
    /\ [][timer = [mins |-> 0, secs |-> 0] => timer' = timer]_vars

\* from 0:05, a sixth Tick has been processed
C7_Witness ==
    /\ t0 = [mins |-> 0, secs |-> 5]
    /\ ticks = 6
    /\ timer = [mins |-> 0, secs |-> 0]

\* C8: every step that changes the countdown is taken in a state with Play and
\* is_timer_on, also when the Tick was fired before a Stop or a ToggleTimer(false).
C8_DecrementOnlyWhenActive ==
    [][timer' /= timer => state = "Play" /\ is_timer_on]_vars

DeliversTick == Delivers /\ Head(inflight).msg = "Tick"

\* C18: a Tick processed above 0:00 lowers 60 * minutes + seconds by exactly
\* one, borrowing from the minutes when the seconds are 0 (m:00 becomes
\* (m-1):59), and a Tick processed at 0:00 changes nothing.
C18_TickLowersByOneSecond ==
    [][DeliversTick
          => IF Total(timer) > 0
             THEN /\ Total(timer') = Total(timer) - 1
                  /\ 0 <= timer'.secs /\ timer'.secs <= 59
                  /\ timer.secs = 0
                       => timer' = [mins |-> timer.mins - 1, secs |-> 59]
                  /\ timer.secs > 0
                       => timer' = [mins |-> timer.mins, secs |-> timer.secs - 1]
             ELSE UNCHANGED metro]_vars

\* two Ticks from 1:01: the second one borrowed
C18_Witness ==
    /\ t0 = [mins |-> 1, secs |-> 1]
    /\ ticks = 2
    /\ timer = [mins |-> 0, secs |-> 59]

----------------------------------------------------------------------------
(* Playback worker *)

\* C12: the worker does not serialize clips.  Every Beat it has received had
\* its playback started; while it is receiving, the next Beat of the channel
\* can be received whatever number of clips is still playing; and each
\* reception adds a clip to those playing, none of them being waited for.
C12_ClipsOverlap ==
    /\ [](\A i \in DOMAIN recvLog : recvLog[i].played)
    /\ []((worker = "recv" /\ chan /= <<>>) => ENABLED WorkerPlay)
    /\ [][recvLog' /= recvLog
            => /\ Len(recvLog') = Len(recvLog) + 1
               /\ playing' = playing + 1]_vars

\* a burst of two Beats, both received and both clips playing at once
C12_Witness ==
    /\ Len(recvLog) = 2
    /\ playing = 2
    /\ worker = "recv"

\* a play request of the worker has failed
PlayFailed == \E i \in DOMAIN recvLog : ~recvLog[i].played

\* C9: after a play request for a received Beat fails, the worker is still
\* running (receiving, or returned once the channel was closed and drained).
C9_WorkerSurvivesPlayFailure == PlayFailed => worker \in {"recv", "done"}

\* C10: unless the output device failed to open, Beats are delivered exactly
\* once and in the order of their enqueueing, and the worker terminates only
\* when the Sender is gone and every enqueued Beat has been consumed.
C10_DeliveredInOrderAndDrained ==
    worker /= "open_panic"
        => /\ Kinds(recvLog) \o chan = Kinds(sentLog)
           /\ worker \in {"done", "play_panic", "killed"}
                => ~SenderAlive /\ Kinds(recvLog) = Kinds(sentLog)

----------------------------------------------------------------------------
(* Beat scheduler *)

\* the beat timers among the active timers
BeatTimers == {i \in DOMAIN subscription : subscription[i].msg = "Beat"}
TickTimers == {i \in DOMAIN subscription : subscription[i].msg = "Tick"}

\* p is the whole number of microseconds nearest to 60 / v / factor seconds
NearestMicros(p, v, factor) == 2 * Abs(p * v * factor - MicrosPerMinute) <= v * factor

\* C11: for every tempo in [40,200] and either subdivision, the beat timer
\* installed while Playing has the period 60 / tempo / factor seconds, factor 1
\* for Quarter and 2 for Eighth; at tempo 120 that is 500 ms and 250 ms.
C11_BeatPeriod ==
    (state = "Play" /\ InRange(value))
        => /\ BeatTimers /= {}
           /\ \A i \in BeatTimers :
                /\ subdivision = "Quarter" => NearestMicros(subscription[i].period, value, 1)
                /\ subdivision = "Eighth" => NearestMicros(subscription[i].period, value, 2)
                /\ (value = 120 /\ subdivision = "Quarter") => subscription[i].period = 500000
                /\ (value = 120 /\ subdivision = "Eighth") => subscription[i].period = 250000

C11_Witness ==
    /\ state = "Play"
    /\ value = 120
    /\ subdivision = "Eighth"
    /\ \E i \in BeatTimers : subscription[i].period = 250000

\* C14: a Beat message produced before a Stop was processed (by the beat timer
\* or by the command of Toggle) never has a BeatEvent enqueued for it after that
\* Stop, also when playback is Playing again by the time it is delivered.
C14_StopCancelsPendingBeats ==
    [][(DeliversBeat /\ Head(inflight).stale) => chan' = chan /\ sentLog' = sentLog]_vars

\* C16: the active timers are a function of the session state: while the
\* control context runs there is no timer when Stopped and, when Playing,
\* exactly one beat timer, with the period of the current tempo and
\* subdivision, plus exactly one countdown timer of one second iff is_timer_on;
\* never two beat timers, so none of an earlier tempo or subdivision.
C16_TimersFollowState ==
    ctl = "running"
        => /\ state = "Stopped" => subscription = <<>>
           /\ state = "Play"
                => /\ Cardinality(BeatTimers) = 1
                   /\ Cardinality(TickTimers) = (IF is_timer_on THEN 1 ELSE 0)
                   /\ Len(subscription) = Cardinality(BeatTimers) + Cardinality(TickTimers)
                   /\ \A i \in TickTimers : subscription[i].period = 1000000
                   /\ \A i \in BeatTimers :
                        /\ subdivision = "Quarter"
                             => NearestMicros(subscription[i].period, value, 1)
                        /\ subdivision = "Eighth"
                             => NearestMicros(subscription[i].period, value, 2)

\* Playing with the countdown on, after the tempo and the subdivision changed
C16_Witness ==
    /\ ctl = "running"
    /\ state = "Play"
    /\ is_timer_on
    /\ value = MaxBPM
    /\ subdivision = "Eighth"
    /\ Len(subscription) = 2
    /\ \E i \in BeatTimers : subscription[i].period = 150000

\* the message a step appends to the queue
Queued == inflight'[Len(inflight')]
QueuesTimerBeat ==
    /\ Len(inflight') = Len(inflight) + 1
    /\ inflight' = Append(inflight, Queued)
    /\ Queued.msg = "Beat"
    /\ Queued.src = "timer"

\* C17: a tempo change while Playing touches neither the queued messages nor
\* what was sent, so a Beat already fired under the old period stays queued;
\* its delivery in Play enqueues exactly one BeatEvent; and from the change on
\* the beat timer, and every Beat it fires, has the period of the new tempo.
C17_TempoChangeAffectsLaterBeats ==
    [][/\ (value' /= value /\ state = "Play")
            => /\ inflight' = inflight /\ chan' = chan /\ sentLog' = sentLog
               /\ ctl' = "running"
                    => \A i \in BeatTimers' :
                         NearestMicros(subscription'[i].period, value',
                                       IF subdivision' = "Quarter" THEN 1 ELSE 2)
       /\ (DeliversBeat /\ OldPeriod(Head(inflight)) /\ state = "Play")
            => /\ Len(chan') = Len(chan) + 1
               /\ Len(sentLog') = Len(sentLog) + 1
               /\ SubSeq(sentLog', 1, Len(sentLog)) = sentLog
       /\ QueuesTimerBeat
            => NearestMicros(Queued.period, value, IF subdivision = "Quarter" THEN 1 ELSE 2)]_vars

\* a Beat fired at tempo 120 was delivered and enqueued at tempo 200
C17_Witness ==
    /\ state = "Play"
    /\ value = MaxBPM
    /\ subdivision = "Quarter"
    /\ sentLog /= <<>>
    /\ sentLog[Len(sentLog)].old
    /\ ~sentLog[Len(sentLog)].stale
    /\ chan /= <<>>

----------------------------------------------------------------------------
(* Playback state *)

\* C20: the state starts as Stopped and changes only in a Toggle, which takes
\* Stopped to Play and Play to Stopped; no other message changes it, so that
\* the countdown reaching 0:00 does not stop playback and a Beat delivered in
\* Play at 0:00 is enqueued as any other.
C20_StateChangesOnlyOnToggle ==
    /\ state = "Stopped"
    /\ [][/\ state' /= state
               => /\ UpdateToggle
                  /\ state' = (IF state = "Stopped" THEN "Play" ELSE "Stopped")
          /\ UpdateToggle => state' /= state
          /\ (DeliversTick /\ state = "Play") => state' = "Play"
          /\ (DeliversBeat /\ state = "Play" /\ Total(timer) = 0)
               => /\ state' = "Play"
                  /\ Len(sentLog') = Len(sentLog) + 1
                  /\ chan' = Append(chan, KindNow)]_vars

\* a Tick has taken the countdown from 0:01 to 0:00 in Play, and the Beat
\* delivered after it was enqueued
C20_Witness ==
    /\ state = "Play"
    /\ t0 = LastSecond
    /\ Total(timer) = 0
    /\ sentLog /= <<>>
    /\ sentLog[Len(sentLog)].spent
    /\ ~sentLog[Len(sentLog)].stale

----------------------------------------------------------------------------
(* Failures of the audio device *)

\* C13: when the output device fails to open at worker start the program
\* terminates; the control side takes no further message (its fields stay as
\* they are) once the worker has failed to start.
C13_OpenFailureIsFatal ==
    [][worker = "open_panic" => UNCHANGED metro]_vars

\* C15: a failed play request never reaches the control side: after one, the
\* control context goes on when it is given a Beat message, its send of the
\* BeatEvent neither failing nor aborting it.
C15_PlayFailureContained ==
    [][(PlayFailed /\ DeliversBeat)
          => /\ ctl' = "running"
             /\ state = "Play" => Len(sentLog') = Len(sentLog) + 1]_vars

====
